---- MODULE Spec2Model ----
(***************************************************************************)
(* A model of the document-processor tutorial repository:                  *)
(*   - pydantic_advanced.py: build_field / create_extraction_model, which  *)
(*     turn a JSON field list into a pydantic model, and the validation of *)
(*     a record by instantiating that model;                               *)
(*   - routers/documents.py and routers/workflows.py: the create/list/get  *)
(*     endpoints over the module-level fake_db lists, run by worker        *)
(*     threads (SpecThreads) or one call at a time (SpecSeq).              *)
(*                                                                         *)
(* Python numbers are held as fixed-point integers in hundredths           *)
(* (6.75 is 675, the int 150 is 15000), tagged with their Python type.     *)
(***************************************************************************)
EXTENDS Integers, Sequences, FiniteSets, TLC

VARIABLES
    schema,              \* the "fields" list handed to create_extraction_model
    record,              \* the keyword arguments handed to the model: name -> {} | {value}
    pc,                  \* create_extraction_model: "loop" | "done" | "failed"
    i,                   \* index of the next field_def of the for loop
    fields,              \* the local dict `fields`, in insertion order
    raised,              \* exception that left create_extraction_model ("" if none)
    model,               \* what the caller holds: the created model class, or none
    vpos,                \* per validation call: next model field to validate
    verrs,               \* per validation call: line errors collected so far
    vvals,               \* per validation call: validated values so far
    vres,                \* per validation call: "pending" | "ok" | "ValidationError" | "TypeError"
    documents_fake_db,   \* routers/documents.py fake_db
    workflows_fake_db,   \* routers/workflows.py fake_db
    tpc,                 \* per worker thread: "idle" | "doc" | "wf"  (entry built, not appended)
    tnew,                \* per worker thread: the new_doc / new_workflow dict it built
    response             \* the last HTTP response of the sequential router

compilerVars == <<schema, record, pc, i, fields, raised, model, vpos, verrs, vvals, vres>>
routerVars == <<documents_fake_db, workflows_fake_db, tpc, tnew, response>>
vars == <<schema, record, pc, i, fields, raised, model, vpos, verrs, vvals, vres,
          documents_fake_db, workflows_fake_db, tpc, tnew, response>>

(***************************************************************************)
(* Bounds                                                                  *)
(***************************************************************************)
\* longest field list drawn from the pool of field definitions
MaxFields == 2
\* most entries a fake_db list grows to
MaxDb == 3

(***************************************************************************)
(* Python values                                                           *)
(***************************************************************************)
NoneVal == [t |-> "none", n |-> 0, s |-> ""]
IntVal(k) == [t |-> "int", n |-> 100 * k, s |-> ""]
FloatVal(h) == [t |-> "float", n |-> h, s |-> ""]
StrVal(str) == [t |-> "str", n |-> 0, s |-> str]
BoolVal(b) == [t |-> "bool", n |-> IF b THEN 100 ELSE 0, s |-> ""]

\* dict.get(key, default) on a dict held as a function
DictGet(d, k, dflt) == IF k \in DOMAIN d THEN d[k] ELSE dflt

\* position of key k in an insertion-ordered dict (0 when absent)
DictIndex(d, k) ==
    IF \E j \in 1..Len(d) : d[j].name = k
    THEN CHOOSE j \in 1..Len(d) : d[j].name = k
    ELSE 0

\* d[k] = v on an insertion-ordered dict: a new key goes last, an existing
\* key keeps its place and takes the new value
DictSet(d, k, v) ==
    IF DictIndex(d, k) = 0
    THEN Append(d, [name |-> k, info |-> v])
    ELSE [d EXCEPT ![DictIndex(d, k)] = [name |-> k, info |-> v]]

(***************************************************************************)
(* build_field                                                             *)
(***************************************************************************)
\* the type_mapping dict of build_field
type_mapping == [tag \in {"str", "int", "float", "bool"} |-> tag]

\* a field definition; an optional key is held as {} (absent) or {value}
FieldDef(name, type, required, default, min, max, min_length) ==
    [name |-> name, type |-> type, required |-> required, default |-> default,
     min |-> min, max |-> max, min_length |-> min_length]

\* the field_kwargs dict build_field fills from "min", "max" and "min_length"
field_kwargs(field_def) ==
    LET keys == (IF field_def.min # {} THEN {"ge"} ELSE {})
                \cup (IF field_def.max # {} THEN {"le"} ELSE {})
                \cup (IF field_def.min_length # {} THEN {"min_length"} ELSE {})
    IN  [k \in keys |->
            CASE k = "ge" -> CHOOSE x \in field_def.min : TRUE
              [] k = "le" -> CHOOSE x \in field_def.max : TRUE
              [] k = "min_length" -> CHOOSE x \in field_def.min_length : TRUE]

\* field_def.get("required", True)
IsRequired(field_def) ==
    IF field_def.required = {} THEN TRUE ELSE CHOOSE b \in field_def.required : TRUE

\* the default build_field hands to Field(): read from field_kwargs, which
\* never holds a "default" key
FieldDefault(field_def) == DictGet(field_kwargs(field_def), "default", NoneVal)

\* a mutant: an unknown tag falls back to str
PythonTypeLenient(tag) ==
    IF tag \in DOMAIN type_mapping THEN {type_mapping[tag]} ELSE {"str"}

\* type_mapping[field_def["type"]]: {} stands for the KeyError
PythonType(tag) ==
    IF tag \in DOMAIN type_mapping THEN {type_mapping[tag]} ELSE {}

\* the (annotation, Field(...)) tuple build_field returns
build_field(field_def) ==
    LET python_type == CHOOSE ty \in PythonType(field_def.type) : TRUE
        kw == field_kwargs(field_def)
        cons == [ge |-> IF "ge" \in DOMAIN kw THEN {kw["ge"]} ELSE {},
                 le |-> IF "le" \in DOMAIN kw THEN {kw["le"]} ELSE {},
                 min_length |-> IF "min_length" \in DOMAIN kw THEN {kw["min_length"]} ELSE {}]
    IN  IF IsRequired(field_def)
        THEN [annotation |-> python_type, nullable |-> FALSE, required |-> TRUE,
              default |-> NoneVal, ge |-> cons.ge, le |-> cons.le,
              min_length |-> cons.min_length]
        ELSE [annotation |-> python_type, nullable |-> TRUE, required |-> FALSE,
              default |-> FieldDefault(field_def), ge |-> cons.ge, le |-> cons.le,
              min_length |-> cons.min_length]

(***************************************************************************)
(* Inputs                                                                  *)
(***************************************************************************)
\* schema_from_api["fields"]
schema_from_api ==
    << FieldDef("loan_amount", "float", {TRUE}, {}, {0}, {}, {}),
       FieldDef("interest_rate", "float", {TRUE}, {}, {0}, {10000}, {}),
       FieldDef("borrower_name", "str", {TRUE}, {}, {}, {}, {1}),
       FieldDef("loan_date", "str", {FALSE}, {NoneVal}, {}, {}, {}) >>

\* the pool other field lists are drawn from
FieldDefPool ==
    { FieldDef("a", "float", {TRUE}, {}, {0}, {10000}, {}),
      FieldDef("b", "str", {TRUE}, {}, {}, {}, {1}),
      FieldDef("b", "str", {FALSE}, {NoneVal}, {}, {}, {}),
      FieldDef("b", "int", {FALSE}, {IntVal(5)}, {}, {}, {}),
      FieldDef("a", "float", {}, {}, {0}, {}, {}),
      FieldDef("a", "string", {TRUE}, {}, {}, {}, {}),
      FieldDef("b", "str", {TRUE}, {}, {0}, {}, {}),
      FieldDef("a", "int", {TRUE}, {}, {}, {}, {1}) }

Schemas ==
    {schema_from_api}
    \cup UNION {[1..n -> FieldDefPool] : n \in 1..MaxFields}

\* the values a record may give a key
Values ==
    { IntVal(-100), IntVal(150), FloatVal(675), FloatVal(35000000),
      StrVal(""), StrVal("Jane Smith") }

NamesOf(s) == {s[j].name : j \in 1..Len(s)}

Records(s) == [NamesOf(s) -> {{}} \cup {{v} : v \in Values}]

\* the two calls that validate `record` against the model
Calls == {"c1", "c2"}

NoModel == [kind |-> "none", fields |-> <<>>]

(***************************************************************************)
(* Validation of one value by the created model                            *)
(***************************************************************************)
Ok(v) == [err |-> "", crash |-> FALSE, val |-> v]
LineError(kind) == [err |-> kind, crash |-> FALSE, val |-> NoneVal]
\* an exception that is not a validation error leaves the call at once
Crash == [err |-> "", crash |-> TRUE, val |-> NoneVal]

\* lax-mode coercion of a non-None value to the annotated type; no string of
\* Values parses as a number or as a boolean
Coerce(annotation, x) ==
    CASE annotation = "str" ->
            IF x.t = "str" THEN Ok(x) ELSE LineError("string_type")
      [] annotation = "int" ->
            CASE x.t = "int" -> Ok(x)
              [] x.t = "bool" -> Ok([t |-> "int", n |-> x.n, s |-> ""])
              [] x.t = "float" ->
                    IF x.n % 100 = 0 THEN Ok([t |-> "int", n |-> x.n, s |-> ""])
                    ELSE LineError("int_from_float")
              [] x.t = "str" -> LineError("int_parsing")
              [] OTHER -> LineError("int_type")
      [] annotation = "float" ->
            CASE x.t = "float" -> Ok(x)
              [] x.t \in {"int", "bool"} -> Ok([t |-> "float", n |-> x.n, s |-> ""])
              [] x.t = "str" -> LineError("float_parsing")
              [] OTHER -> LineError("float_type")
      [] annotation = "bool" ->
            CASE x.t = "bool" -> Ok(x)
              [] x.t \in {"int", "float"} /\ x.n \in {0, 100} -> Ok(BoolVal(x.n = 100))
              [] OTHER -> LineError("bool_parsing")

\* ge / le / min_length on a coerced value.  A constraint the type supports is
\* checked by the type's validator; one it does not support was attached as a
\* plain comparison (x >= ge, len(x) >= min_length), which raises TypeError on
\* a str compared with a number or on len() of a number.
Constrain(info, v) ==
    LET numeric == v.t \in {"int", "float", "bool"}
        ge == CHOOSE b \in info.ge : TRUE
        le == CHOOSE b \in info.le : TRUE
        min_length == CHOOSE b \in info.min_length : TRUE
    IN  CASE info.ge # {} /\ numeric /\ v.n < ge -> LineError("greater_than_equal")
          [] info.le # {} /\ numeric /\ v.n > le -> LineError("less_than_equal")
          [] info.min_length # {} /\ v.t = "str" /\ Len(v.s) < min_length ->
                LineError("string_too_short")
          [] (info.ge # {} \/ info.le # {}) /\ ~numeric -> Crash
          [] info.min_length # {} /\ v.t # "str" -> Crash
          [] OTHER -> Ok(v)

\* one field of the model against the record's entry for it ({} when absent)
ValidateField(info, given) ==
    IF given = {}
    THEN IF info.required THEN LineError("missing") ELSE Ok(info.default)
    ELSE LET x == CHOOSE v \in given : TRUE
         IN  IF x.t = "none"
             THEN IF info.nullable THEN Ok(NoneVal)
                  ELSE LineError(info.annotation \o "_type")
             ELSE LET c == Coerce(info.annotation, x)
                  IN  IF c.err # "" THEN c ELSE Constrain(info, c.val)

(***************************************************************************)
(* create_extraction_model                                                 *)
(***************************************************************************)
CompilerStart(s, r) ==
    /\ schema = s
    /\ record = r
    /\ pc = "loop"
    /\ i = 1
    /\ fields = <<>>
    /\ raised = ""
    /\ model = NoModel
    /\ vpos = [c \in Calls |-> 1]
    /\ verrs = [c \in Calls |-> <<>>]
    /\ vvals = [c \in Calls |-> <<>>]
    /\ vres = [c \in Calls |-> "pending"]

RouterStart ==
    /\ documents_fake_db = <<>>
    /\ workflows_fake_db = <<>>
    /\ tpc = [t \in {"t1", "t2"} |-> "idle"]
    /\ tnew = [t \in {"t1", "t2"} |-> [id |-> 0, name |-> "", status |-> ""]]
    /\ response = [kind |-> "none", arg |-> 0, status |-> 0, detail |-> "", body |-> <<>>]

Init ==
    /\ \E s \in Schemas : \E r \in Records(s) : CompilerStart(s, r)
    /\ RouterStart

\* one pass of `for field_def in schema["fields"]`
BuildFieldStep ==
    /\ pc = "loop"
    /\ i <= Len(schema)
    /\ IF PythonType(schema[i].type) = {}
       THEN /\ raised' = "KeyError"
            /\ pc' = "failed"
            /\ UNCHANGED <<i, fields>>
       ELSE /\ fields' = DictSet(fields, schema[i].name, build_field(schema[i]))
            /\ i' = i + 1
            /\ UNCHANGED <<pc, raised>>
    /\ UNCHANGED <<schema, record, model, vpos, verrs, vvals, vres>>
    /\ UNCHANGED routerVars

\* return create_model(model_name, **fields)
CreateModel ==
    /\ pc = "loop"
    /\ i > Len(schema)
    /\ model' = [kind |-> "model", fields |-> fields]
    /\ pc' = "done"
    /\ UNCHANGED <<schema, record, i, fields, raised, vpos, verrs, vvals, vres>>
    /\ UNCHANGED routerVars

\* a mutant: validation writes the validated value back as the field's default
ValidateFieldStepWritesBack(c) ==
    /\ pc = "done"
    /\ vres[c] = "pending"
    /\ vpos[c] <= Len(model.fields)
    /\ LET f == model.fields[vpos[c]]
           r == ValidateField(f.info, record[f.name])
       IN  IF r.crash
           THEN /\ vres' = [vres EXCEPT ![c] = "TypeError"]
                /\ UNCHANGED <<vpos, verrs, vvals, model>>
           ELSE /\ vpos' = [vpos EXCEPT ![c] = @ + 1]
                /\ verrs' = [verrs EXCEPT ![c] =
                        IF r.err # "" THEN Append(@, [loc |-> f.name, type |-> r.err]) ELSE @]
                /\ vvals' = [vvals EXCEPT ![c] =
                        IF r.err = "" THEN Append(@, [name |-> f.name, value |-> r.val]) ELSE @]
                /\ model' = [model EXCEPT !.fields[vpos[c]].info.default = r.val]
                /\ UNCHANGED vres
    /\ UNCHANGED <<schema, record, pc, i, fields, raised>>
    /\ UNCHANGED routerVars

\* Model(**record), one field of the model at a time
ValidateFieldStep(c) ==
    /\ pc = "done"
    /\ vres[c] = "pending"
    /\ vpos[c] <= Len(model.fields)
    /\ LET f == model.fields[vpos[c]]
           r == ValidateField(f.info, record[f.name])
       IN  IF r.crash
           THEN /\ vres' = [vres EXCEPT ![c] = "TypeError"]
                /\ UNCHANGED <<vpos, verrs, vvals>>
           ELSE /\ vpos' = [vpos EXCEPT ![c] = @ + 1]
                /\ verrs' = [verrs EXCEPT ![c] =
                        IF r.err # "" THEN Append(@, [loc |-> f.name, type |-> r.err]) ELSE @]
                /\ vvals' = [vvals EXCEPT ![c] =
                        IF r.err = "" THEN Append(@, [name |-> f.name, value |-> r.val]) ELSE @]
                /\ UNCHANGED vres
    /\ UNCHANGED <<schema, record, pc, i, fields, raised, model>>
    /\ UNCHANGED routerVars

\* Model(**record) returns the instance or raises the collected ValidationError
ValidateReturn(c) ==
    /\ pc = "done"
    /\ vres[c] = "pending"
    /\ vpos[c] > Len(model.fields)
    /\ vres' = [vres EXCEPT ![c] = IF verrs[c] = <<>> THEN "ok" ELSE "ValidationError"]
    /\ UNCHANGED <<schema, record, pc, i, fields, raised, model, vpos, verrs, vvals>>
    /\ UNCHANGED routerVars

Next ==
    \/ BuildFieldStep
    \/ CreateModel
    \/ \E c \in Calls : ValidateFieldStep(c)
    \/ \E c \in Calls : ValidateReturn(c)

Spec == Init /\ [][Next]_vars

(***************************************************************************)
(* The routers                                                             *)
(***************************************************************************)
Threads == {"t1", "t2"}

\* request bodies: WorkflowCreate.name
RequestNames == {"Loan Analysis", "Risk Assessment", "Compliance Check"}

\* the request bodies the worker threads are handed
ThreadDocNames == {"loan_disclosure.pdf"}
ThreadWorkflowNames == {"Loan Analysis"}

\* the compiler is not used by the routers: one fixed field list and record
RouterInit ==
    /\ CompilerStart(schema_from_api, [nm \in NamesOf(schema_from_api) |-> {}])
    /\ RouterStart

\* a mutant: the id is taken from a counter that starts at 0
NewWorkflowIdFromZero(db) == Len(db)

\* "id": len(fake_db) + 1
NewWorkflowId(db) == Len(db) + 1

\* create_document up to, not including, fake_db.append: new_doc is built
\* from len(fake_db) as it is at that moment
CreateDocumentBuild(t, name) ==
    /\ tpc[t] = "idle"
    /\ Len(documents_fake_db) < MaxDb
    /\ tnew' = [tnew EXCEPT ![t] =
            [id |-> Len(documents_fake_db) + 1, name |-> name, status |-> "pending"]]
    /\ tpc' = [tpc EXCEPT ![t] = "doc"]
    /\ UNCHANGED <<documents_fake_db, workflows_fake_db, response>>
    /\ UNCHANGED compilerVars

\* fake_db.append(new_doc); return new_doc
CreateDocumentAppend(t) ==
    /\ tpc[t] = "doc"
    /\ documents_fake_db' = Append(documents_fake_db, tnew[t])
    /\ tpc' = [tpc EXCEPT ![t] = "idle"]
    /\ UNCHANGED <<workflows_fake_db, tnew, response>>
    /\ UNCHANGED compilerVars

\* create_workflow up to, not including, fake_db.append
CreateWorkflowBuild(t, name) ==
    /\ tpc[t] = "idle"
    /\ Len(workflows_fake_db) < MaxDb
    /\ tnew' = [tnew EXCEPT ![t] =
            [id |-> NewWorkflowId(workflows_fake_db), name |-> name, status |-> "pending"]]
    /\ tpc' = [tpc EXCEPT ![t] = "wf"]
    /\ UNCHANGED <<documents_fake_db, workflows_fake_db, response>>
    /\ UNCHANGED compilerVars

\* fake_db.append(new_workflow); return new_workflow
CreateWorkflowAppend(t) ==
    /\ tpc[t] = "wf"
    /\ workflows_fake_db' = Append(workflows_fake_db, tnew[t])
    /\ tpc' = [tpc EXCEPT ![t] = "idle"]
    /\ UNCHANGED <<documents_fake_db, tnew, response>>
    /\ UNCHANGED compilerVars

NextThreads ==
    \/ \E t \in Threads : \E name \in ThreadDocNames : CreateDocumentBuild(t, name)
    \/ \E t \in Threads : CreateDocumentAppend(t)
    \/ \E t \in Threads : \E name \in ThreadWorkflowNames : CreateWorkflowBuild(t, name)
    \/ \E t \in Threads : CreateWorkflowAppend(t)

SpecThreads == RouterInit /\ [][NextThreads]_vars

\* create_workflow, run to completion
create_workflow(name) ==
    /\ Len(workflows_fake_db) < MaxDb
    /\ LET new_workflow == [id |-> NewWorkflowId(workflows_fake_db), name |-> name,
                            status |-> "pending"]
       IN  /\ workflows_fake_db' = Append(workflows_fake_db, new_workflow)
           /\ response' = [kind |-> "create", arg |-> 0, status |-> 200, detail |-> "",
                           body |-> <<new_workflow>>]
    /\ UNCHANGED <<documents_fake_db, tpc, tnew>>
    /\ UNCHANGED compilerVars

\* list_workflows
list_workflows ==
    /\ response' = [kind |-> "list", arg |-> 0, status |-> 200, detail |-> "",
                    body |-> workflows_fake_db]
    /\ UNCHANGED <<documents_fake_db, workflows_fake_db, tpc, tnew>>
    /\ UNCHANGED compilerVars

\* the first entry of the list whose id is workflow_id, as the for loop finds it
FirstWithId(db, workflow_id) ==
    LET hits == {k \in 1..Len(db) : db[k].id = workflow_id}
    IN  IF hits = {} THEN <<>>
        ELSE <<db[CHOOSE k \in hits : \A h \in hits : k <= h]>>

\* get_workflow
get_workflow(workflow_id) ==
    /\ LET found == FirstWithId(workflows_fake_db, workflow_id)
       IN  response' =
             IF found # <<>>
             THEN [kind |-> "get", arg |-> workflow_id, status |-> 200, detail |-> "",
                   body |-> found]
             ELSE [kind |-> "get", arg |-> workflow_id, status |-> 404,
                   detail |-> "Workflow not found", body |-> <<>>]
    /\ UNCHANGED <<documents_fake_db, workflows_fake_db, tpc, tnew>>
    /\ UNCHANGED compilerVars

NextSeq ==
    \/ \E name \in RequestNames : create_workflow(name)
    \/ list_workflows
    \/ \E workflow_id \in 0..(MaxDb + 1) : get_workflow(workflow_id)

SpecSeq == RouterInit /\ [][NextSeq]_vars

(***************************************************************************)
(* Properties                                                              *)
(***************************************************************************)
Finished(c) == vres[c] # "pending"

\* the definition a name ends up with: the last entry of the list carrying it
LastDef(s, name) ==
    s[CHOOSE j \in 1..Len(s) :
        /\ s[j].name = name
        /\ \A k \in 1..Len(s) : s[k].name = name => k <= j]

HasDuplicate(s) == \E j, k \in 1..Len(s) : j # k /\ s[j].name = s[k].name

HasUnknownType(s) == \E j \in 1..Len(s) : s[j].type \notin {"str", "int", "float", "bool"}

\* min or max on a string or boolean field, min_length on a number or boolean
Incompatible(fd) ==
    \/ fd.type \in {"str", "bool"} /\ (fd.min # {} \/ fd.max # {})
    \/ fd.type \in {"int", "float", "bool"} /\ fd.min_length # {}

HasIncompatible(s) == \E j \in 1..Len(s) : Incompatible(s[j])

DeclaredRequired(fd) == fd.required \in {{}, {TRUE}}

\* the value call c returned for a field
Output(c, name) ==
    LET hits == {j \in 1..Len(vvals[c]) : vvals[c][j].name = name}
    IN  {vvals[c][j].value : j \in hits}

ErrorsAt(c, name) == {j \in 1..Len(verrs[c]) : verrs[c][j].loc = name}

\* C1: a field declared required=false with default d, absent from the
\* record, raises no error and the validated record holds exactly d for it.
C1_DefaultApplied ==
    \A c \in Calls : \A name \in NamesOf(schema) :
        LET fd == LastDef(schema, name)
        IN  (/\ vres[c] = "ok"
             /\ fd.required = {FALSE}
             /\ fd.default # {}
             /\ record[name] = {})
            => /\ ErrorsAt(c, name) = {}
               /\ Output(c, name) = fd.default

\* C2: a field list in which two entries share a name never yields a model:
\* create_extraction_model fails on it.
C2_DuplicateRejected ==
    HasDuplicate(schema) => /\ model = NoModel
                            /\ pc # "done"

\* the failures C3 lists, read off the field's definition and the raw value
BelowMinimum(fd, given) ==
    /\ fd.type \in {"int", "float"} /\ fd.min # {}
    /\ \E v \in given : v.t \in {"int", "float"} /\ \E b \in fd.min : v.n < b

AboveMaximum(fd, given) ==
    /\ fd.type \in {"int", "float"} /\ fd.max # {}
    /\ \E v \in given : v.t \in {"int", "float"} /\ \E b \in fd.max : v.n > b

TooShort(fd, given) ==
    /\ fd.type = "str" /\ fd.min_length # {}
    /\ \E v \in given : v.t = "str" /\ \E b \in fd.min_length : Len(v.s) < b

MissingRequired(fd, given) == DeclaredRequired(fd) /\ given = {}

Failing(fd, given) ==
    \/ BelowMinimum(fd, given)
    \/ AboveMaximum(fd, given)
    \/ TooShort(fd, given)
    \/ MissingRequired(fd, given)

LoanBadRecord ==
    [nm \in NamesOf(schema_from_api) |->
        CASE nm = "loan_amount" -> {IntVal(-100)}
          [] nm = "interest_rate" -> {IntVal(150)}
          [] nm = "borrower_name" -> {StrVal("")}
          [] OTHER -> {}]

LoanGoodRecord ==
    [nm \in NamesOf(schema_from_api) |->
        CASE nm = "loan_amount" -> {FloatVal(35000000)}
          [] nm = "interest_rate" -> {FloatVal(675)}
          [] nm = "borrower_name" -> {StrVal("Jane Smith")}
          [] OTHER -> {}]

\* C3: a finished validation of a record with failing fields reports a
\* validation error holding one entry for each failing field, not only the
\* first; the loan schema with -100, 150 and "" reports exactly three.
C3_AllFailuresReported ==
    \A c \in Calls :
        (Finished(c) /\ \E name \in NamesOf(schema) : Failing(LastDef(schema, name), record[name]))
        => /\ vres[c] = "ValidationError"
           /\ \A name \in NamesOf(schema) :
                Failing(LastDef(schema, name), record[name])
                    => Cardinality(ErrorsAt(c, name)) = 1
           /\ (schema = schema_from_api /\ record = LoanBadRecord)
                => verrs[c] = << [loc |-> "loan_amount", type |-> "greater_than_equal"],
                                 [loc |-> "interest_rate", type |-> "less_than_equal"],
                                 [loc |-> "borrower_name", type |-> "string_too_short"] >>

\* C4: a finished validation of a record lacking a field declared required
\* (or declared without a "required" key) fails with a validation error that
\* holds a missing entry for that field, and for no field that is present.
C4_MissingRequiredReported ==
    \A c \in Calls :
        Finished(c) =>
            /\ \A name \in NamesOf(schema) :
                    MissingRequired(LastDef(schema, name), record[name])
                    => /\ vres[c] = "ValidationError"
                       /\ \E j \in ErrorsAt(c, name) : verrs[c][j].type = "missing"
            /\ \A j \in 1..Len(verrs[c]) :
                    verrs[c][j].type = "missing" => record[verrs[c][j].loc] = {}

\* a record in which every required field is present and every present value
\* has the declared type and lies within the declared bounds
WellTyped(fd, given) ==
    \A v \in given :
        /\ v.t = fd.type
        /\ \A b \in fd.min : v.t \in {"int", "float"} /\ v.n >= b
        /\ \A b \in fd.max : v.t \in {"int", "float"} /\ v.n <= b
        /\ \A b \in fd.min_length : v.t = "str" /\ Len(v.s) >= b

ValidRecord ==
    \A name \in NamesOf(schema) :
        LET fd == LastDef(schema, name)
        IN  /\ ~MissingRequired(fd, record[name])
            /\ WellTyped(fd, record[name])
            /\ (record[name] = {} => fd.default # {})

\* what C5 expects back: every field of the model in order, with the input
\* value when present and the declared default when absent
ExpectedOutput ==
    [j \in 1..Len(model.fields) |->
        LET name == model.fields[j].name
        IN  [name |-> name,
             value |-> IF record[name] # {}
                       THEN CHOOSE v \in record[name] : TRUE
                       ELSE CHOOSE d \in LastDef(schema, name).default : TRUE]]

\* C5: a finished validation of a valid record succeeds and returns every
\* schema field in declared order, the input value for a present field and the
\* default for an absent optional one; the loan record yields its three values
\* and loan_date = null.
C5_ValidRecordAccepted ==
    \A c \in Calls :
        (Finished(c) /\ ValidRecord)
        => /\ vres[c] = "ok"
           /\ vvals[c] = ExpectedOutput
           /\ (schema = schema_from_api /\ record = LoanGoodRecord)
                => vvals[c] = << [name |-> "loan_amount", value |-> FloatVal(35000000)],
                                 [name |-> "interest_rate", value |-> FloatVal(675)],
                                 [name |-> "borrower_name", value |-> StrVal("Jane Smith")],
                                 [name |-> "loan_date", value |-> NoneVal] >>

\* C6: a field list holding an unrecognized type tag never yields a model,
\* however many valid entries precede it: create_extraction_model ends with the
\* lookup's error, and a model, once held, covers every entry of the list.
C6_UnknownTypeFailsWhole ==
    /\ HasUnknownType(schema) =>
            /\ model = NoModel
            /\ pc \in {"loop", "failed"}
            /\ (pc = "failed" => raised = "KeyError")
            /\ \A c \in Calls : ~Finished(c) /\ vpos[c] = 1
    /\ model # NoModel =>
            /\ pc = "done"
            /\ raised = ""
            /\ model.fields = fields
            /\ \A name \in NamesOf(schema) : DictIndex(model.fields, name) # 0
    /\ (pc = "loop" /\ i > Len(schema)) => ~HasUnknownType(schema)

\* C6 case: the bad entry came after a valid one that had already been built
C6_Witness ==
    /\ pc = "failed"
    /\ raised = "KeyError"
    /\ i > 1
    /\ fields # <<>>
    /\ model = NoModel

\* C7: a field list with a constraint that does not fit its type tag never
\* yields a model: create_extraction_model fails before any validation.
C7_IncompatibleRejected ==
    HasIncompatible(schema) => /\ model = NoModel
                               /\ pc # "done"

\* C8: validation leaves the field list and the created model as they are,
\* whatever the interleaving of the calls, and two finished validations of the
\* same record return the same result.
C8_ValidationPure ==
    /\ [][pc = "done" => /\ model' = model
                         /\ schema' = schema
                         /\ fields' = fields
                         /\ pc' = pc]_vars
    /\ [](\A c, d \in Calls :
            (Finished(c) /\ Finished(d))
            => /\ vres[c] = vres[d]
               /\ (vres[c] # "TypeError" => verrs[c] = verrs[d] /\ vvals[c] = vvals[d]))

\* C8 case: both calls have finished on a model of two fields, one with a
\* validation error
C8_Witness ==
    /\ \A c \in Calls : Finished(c)
    /\ Len(model.fields) >= 2
    /\ vres["c1"] = "ValidationError"
    /\ vvals["c1"] # <<>>

IdsDistinct(db) == \A k, l \in 1..Len(db) : k # l => db[k].id # db[l].id

\* C9: with create_document and create_workflow running in several worker
\* threads, no two stored entries of a fake_db share an id.
C9_DistinctIds ==
    /\ IdsDistinct(documents_fake_db)
    /\ IdsDistinct(workflows_fake_db)

\* C10: with the workflow endpoints called one at a time, fake_db only ever
\* grows by an append made by create, its k-th entry has id k, list and get
\* leave it unchanged, and get_workflow(i) answers the entry with id i when
\* 1 <= i <= n and 404 "Workflow not found" otherwise.
C10_SequentialIds ==
    /\ [](\A k \in 1..Len(workflows_fake_db) : workflows_fake_db[k].id = k)
    /\ [](response.kind = "get" =>
            IF response.arg >= 1 /\ response.arg <= Len(workflows_fake_db)
            THEN /\ response.status = 200
                 /\ response.body = <<workflows_fake_db[response.arg]>>
                 /\ response.body[1].id = response.arg
            ELSE /\ response.status = 404
                 /\ response.detail = "Workflow not found"
                 /\ response.body = <<>>)
    /\ [](response.kind = "list" => response.body = workflows_fake_db)
    /\ [][/\ \/ workflows_fake_db' = workflows_fake_db
             \/ /\ response'.kind = "create"
                /\ Len(workflows_fake_db') = Len(workflows_fake_db) + 1
                /\ SubSeq(workflows_fake_db', 1, Len(workflows_fake_db)) = workflows_fake_db
                /\ response'.body = <<workflows_fake_db'[Len(workflows_fake_db')]>>
          /\ response'.kind \in {"list", "get"} => workflows_fake_db' = workflows_fake_db]_vars

\* C10 case: after two creates, get_workflow(3), an id past the end, was
\* answered 404
C10_Witness ==
    /\ Len(workflows_fake_db) = 2
    /\ response.kind = "get"
    /\ response.arg = 3
    /\ response.status = 404

====
